---- MODULE Spec2Model ----
(***************************************************************************)
(* Model of the argp command line parser (src/argparser.hpp and the free   *)
(* function version in src/argparser.tpp, lines 372-722): option           *)
(* descriptors, impl::match_option, impl::handle_match, argp::parse and    *)
(* argp::print_help; and of the two earlier designs kept in the            *)
(* repository, the class ArgParser over option objects (lines 204-366,     *)
(* src/unnamed/part_000) and the class ArgParser that keeps the values in  *)
(* maps (lines 724-993, src/unnamed/part_001).                             *)
(*                                                                         *)
(* A command line token (a C string) is a sequence of one-character        *)
(* strings, so that the stream extraction of a number reads it character   *)
(* by character as the library does.  Scan indices are the C indices       *)
(* (0-based): argv[i] of the source is argv[i + 1] here.                   *)
(***************************************************************************)
EXTENDS Integers, Sequences, FiniteSets, TLC

VARIABLES opts,          \* the registry: the option objects behind the vector<OptionBase *>
          argc,          \* parse's argc
          argv,          \* parse's argv
          skip_first_n,  \* parse's skip_first_n
          i,             \* the scan index of parse's for loop
          unrecognised,  \* parse's local vector of unrecognised tokens
          pc,            \* "constructed", "scan", "returned" or "thrown"
          ret,           \* the vector parse returned
          thrown,        \* the exception that left parse
          opts0,         \* history: the option objects as they were when parse was called
          log,           \* history: one entry per loop iteration of parse
          map_parser,    \* the ArgParser object of the version that keeps the values in maps
          os             \* the output stream given to print_help

vars == <<opts, argc, argv, skip_first_n, i, unrecognised, pc, ret, thrown, opts0, log,
          map_parser, os>>

(***************************************************************************)
(* Bounds of the model.                                                    *)
(***************************************************************************)
MaxArgc == 3
MaxOpts == 2
MaxSkip == 1
MaxUnrecognised == 2

(***************************************************************************)
(* The width of int.                                                       *)
(***************************************************************************)
INT_MAX == 2147483647
INT_MIN == -INT_MAX - 1

(***************************************************************************)
(* Characters.                                                             *)
(***************************************************************************)
Digits == <<"0", "1", "2", "3", "4", "5", "6", "7", "8", "9">>

IsDigit(c) == \E d \in 1..10 : Digits[d] = c

DigitVal(c) == (CHOOSE d \in 1..10 : Digits[d] = c) - 1

\* std::isspace in the "C" locale (the vertical tab and the form feed are left out)
IsSpace(c) == c \in {" ", "\t", "\n", "\r"}

(***************************************************************************)
(* std::istringstream iss(str); iss >> val; for an int val.                *)
(* Leading white space is skipped, an optional sign and the longest run    *)
(* of decimal digits are read, and the extraction stops at the first       *)
(* character that cannot continue the number: what follows stays in the    *)
(* stream and sets no error flag.  With no digit the extraction fails and  *)
(* stores 0; a value out of the range of int fails and stores the nearest  *)
(* bound (C++11 and later).                                                *)
(***************************************************************************)
RECURSIVE SkipSpace(_, _)
SkipSpace(str, k) ==
    IF k <= Len(str) /\ IsSpace(str[k]) THEN SkipSpace(str, k + 1) ELSE k

RECURSIVE DigitRunEnd(_, _)
DigitRunEnd(str, k) ==
    IF k <= Len(str) /\ IsDigit(str[k]) THEN DigitRunEnd(str, k + 1) ELSE k

RECURSIVE Accumulate(_, _, _, _, _)
Accumulate(str, k, end, neg, acc) ==
    IF k >= end THEN [fail |-> FALSE, val |-> acc]
    ELSE LET d == DigitVal(str[k]) IN
         IF neg
         THEN IF acc < (INT_MIN + d + 9) \div 10
              THEN [fail |-> TRUE, val |-> INT_MIN]
              ELSE Accumulate(str, k + 1, end, neg, acc * 10 - d)
         ELSE IF acc > (INT_MAX - d) \div 10
              THEN [fail |-> TRUE, val |-> INT_MAX]
              ELSE Accumulate(str, k + 1, end, neg, acc * 10 + d)

istream_extract_int(str) ==
    LET start   == SkipSpace(str, 1)
        hasSign == start <= Len(str) /\ str[start] \in {"+", "-"}
        neg     == hasSign /\ str[start] = "-"
        first   == IF hasSign THEN start + 1 ELSE start
        end     == DigitRunEnd(str, first)
    IN  IF end = first
        THEN [fail |-> TRUE, val |-> 0]
        ELSE Accumulate(str, first, end, neg, 0)

(***************************************************************************)
(* Exceptions: the C++ type, the literal of what(), and the tokens that    *)
(* the message is built from besides the literal.                          *)
(***************************************************************************)
NoException == [type |-> "none", what |-> "", args |-> <<>>]

Exception(type, what) == [type |-> type, what |-> what, args |-> <<>>]

(***************************************************************************)
(* Option objects.  The val member of an option is a value of the type T  *)
(* the option was declared with: it is kept as T :> value, read with       *)
(* get_val.                                                                *)
(***************************************************************************)
POSITIONAL == "POSITIONAL"
KEYWORD    == "KEYWORD"

OptionBase == [is_set_ |-> FALSE]

PositionalOption(T, name, help, is_required, val) ==
    [type |-> POSITIONAL, T |-> T, identifiers |-> <<>>, name |-> name,
     help |-> help, is_required |-> is_required, val |-> T :> val,
     is_set_ |-> OptionBase.is_set_]

KeywordOption(T, identifiers, help, val) ==
    [type |-> KEYWORD, T |-> T, identifiers |-> identifiers, name |-> "",
     help |-> help, is_required |-> FALSE, val |-> T :> val,
     is_set_ |-> OptionBase.is_set_]

\* A keyword option that asks for all remaining arguments (get_param_count = -1)
\* and keeps them verbatim: the variadic string capture.
RestOption(identifiers, help) ==
    [type |-> KEYWORD, T |-> "rest", identifiers |-> identifiers, name |-> "",
     help |-> help, is_required |-> FALSE, val |-> "rest" :> <<>>,
     is_set_ |-> OptionBase.is_set_]

\* A keyword option written by the user of the library whose get_param_count
\* returns a value below -1: the configuration error.
MisconfiguredOption(identifiers, help) ==
    [type |-> KEYWORD, T |-> "misconfigured", identifiers |-> identifiers, name |-> "",
     help |-> help, is_required |-> FALSE, val |-> "misconfigured" :> <<>>,
     is_set_ |-> OptionBase.is_set_]

get_type(o) == o.type

get_val(o) == o.val[o.T]

set_val(o, v) == [o EXCEPT !.val = o.T :> v]

is_set(o) == o.is_set_

PositionalOption_get_param_count == 0

\* mutant: a flag asks for one parameter like every other keyword option
NUM_OPTS_one(T) == 1

NUM_OPTS(T) == IF T = "bool" THEN 0 ELSE 1

KeywordOption_get_param_count(T) == NUM_OPTS(T)

RestOption_get_param_count == -1

MisconfiguredOption_get_param_count == -2

get_param_count(o) ==
    IF get_type(o) = POSITIONAL THEN PositionalOption_get_param_count
    ELSE IF o.T = "rest" THEN RestOption_get_param_count
    ELSE IF o.T = "misconfigured" THEN MisconfiguredOption_get_param_count
    ELSE KeywordOption_get_param_count(o.T)

\* mutant: a positional option that goes on matching after it was set
PositionalOption_matches_always(o, identifier) == TRUE

\* mutant: only a required positional option takes a token
PositionalOption_matches_required(o, identifier) == ~is_set(o) /\ o.is_required

PositionalOption_matches(o, identifier) == ~is_set(o)

\* mutant: an identifier matches any token it begins with, whatever the case
\* of the letters n and N
KeywordOption_matches_loosely(o, identifier) ==
    LET fold(c) == IF c = "N" THEN "n" ELSE c
    IN  \E j \in 1..Len(o.identifiers) :
            /\ Len(identifier) <= Len(o.identifiers[j])
            /\ \A c \in 1..Len(identifier) :
                   fold(o.identifiers[j][c]) = fold(identifier[c])

KeywordOption_matches(o, identifier) ==
    \E j \in 1..Len(o.identifiers) : o.identifiers[j] = identifier

matches(o, identifier) ==
    IF get_type(o) = POSITIONAL THEN PositionalOption_matches(o, identifier)
    ELSE KeywordOption_matches(o, identifier)

(***************************************************************************)
(* from_string: the option after the call and the exception it threw.      *)
(* strings[0] of the source is strings[1] here.                            *)
(***************************************************************************)
ConversionError == Exception("std::invalid_argument", "Could not parse the data.")

\* PositionalOption<T>::from_string and KeywordOption<T>::from_string, T = int
generic_from_string(o, str) ==
    LET x == istream_extract_int(str)
    IN  [o      |-> set_val(o, x.val),
         thrown |-> IF x.fail THEN ConversionError ELSE NoException]

PositionalOption_from_string(o, strings) ==
    IF o.T = "string"
    THEN [o |-> set_val(o, strings[1]), thrown |-> NoException]
    ELSE generic_from_string(o, strings[1])

\* mutant: the conversion reads the matched identifier instead of its parameter
KeywordOption_from_string_identifier(o, strings) ==
    IF o.T = "string"
    THEN [o |-> set_val(o, strings[1]), thrown |-> NoException]
    ELSE IF o.T = "bool"
    THEN [o |-> set_val(o, TRUE), thrown |-> NoException]
    ELSE generic_from_string(o, strings[1])

\* mutant: a flag that toggles its value each time it is found
KeywordOption_from_string_toggle(o, strings) ==
    IF o.T = "string"
    THEN [o |-> set_val(o, strings[2]), thrown |-> NoException]
    ELSE IF o.T = "bool"
    THEN [o |-> set_val(o, ~get_val(o)), thrown |-> NoException]
    ELSE generic_from_string(o, strings[2])

\* mutant: an option that is set keeps the value it was first given
KeywordOption_from_string_first_wins(o, strings) ==
    IF is_set(o)
    THEN [o |-> o, thrown |-> NoException]
    ELSE IF o.T = "string"
    THEN [o |-> set_val(o, strings[2]), thrown |-> NoException]
    ELSE IF o.T = "bool"
    THEN [o |-> set_val(o, TRUE), thrown |-> NoException]
    ELSE generic_from_string(o, strings[2])

KeywordOption_from_string(o, strings) ==
    IF o.T = "string"
    THEN [o |-> set_val(o, strings[2]), thrown |-> NoException]
    ELSE IF o.T = "bool"
    THEN [o |-> set_val(o, TRUE), thrown |-> NoException]
    ELSE generic_from_string(o, strings[2])

RestOption_from_string(o, strings) ==
    [o |-> set_val(o, SubSeq(strings, 2, Len(strings))), thrown |-> NoException]

\* the misconfigured option keeps whatever strings it is given
MisconfiguredOption_from_string(o, strings) ==
    [o |-> set_val(o, strings), thrown |-> NoException]

from_string(o, strings) ==
    IF get_type(o) = POSITIONAL THEN PositionalOption_from_string(o, strings)
    ELSE IF o.T = "rest" THEN RestOption_from_string(o, strings)
    ELSE IF o.T = "misconfigured" THEN MisconfiguredOption_from_string(o, strings)
    ELSE KeywordOption_from_string(o, strings)

\* mutant: is_set_ is filled before the conversion
OptionBase_parse_set_first(o, strings) ==
    from_string([o EXCEPT !.is_set_ = TRUE], strings)

\* mutant: a successful parse also wipes the help text of the option
OptionBase_parse_drops_help(o, strings) ==
    LET r == from_string(o, strings)
    IN  IF r.thrown # NoException
        THEN r
        ELSE [o |-> [r.o EXCEPT !.is_set_ = TRUE, !.help = ""], thrown |-> NoException]

\* OptionBase::parse
OptionBase_parse(o, strings) ==
    LET r == from_string(o, strings)
    IN  IF r.thrown # NoException
        THEN r
        ELSE [o |-> [r.o EXCEPT !.is_set_ = TRUE], thrown |-> NoException]

(***************************************************************************)
(* split_options: the positions in the registry of the positional and of   *)
(* the keyword options, each in registration order.                        *)
(***************************************************************************)
RECURSIVE IndicesOfType(_, _, _)
IndicesOfType(options, type, k) ==
    IF k > Len(options) THEN <<>>
    ELSE IF get_type(options[k]) = type
         THEN <<k>> \o IndicesOfType(options, type, k + 1)
         ELSE IndicesOfType(options, type, k + 1)

split_options(options) ==
    [positional |-> IndicesOfType(options, POSITIONAL, 1),
     keyword    |-> IndicesOfType(options, KEYWORD, 1)]

nullptr == 0

\* mutant: the last option of the list that matches arg
RECURSIVE LastMatch(_, _, _, _)
LastMatch(list, k, arg, options) ==
    IF k > Len(list) THEN nullptr
    ELSE LET later == LastMatch(list, k + 1, arg, options) IN
         IF later # nullptr THEN later
         ELSE IF matches(options[list[k]], arg) THEN list[k]
         ELSE nullptr

\* the first option of the list that matches arg, nullptr if none does
RECURSIVE FirstMatch(_, _, _, _)
FirstMatch(list, k, arg, options) ==
    IF k > Len(list) THEN nullptr
    ELSE IF matches(options[list[k]], arg) THEN list[k]
    ELSE FirstMatch(list, k + 1, arg, options)

\* mutant: the options are tried in registration order, keyword or not
match_option_registration_order(arg, options) ==
    FirstMatch([k \in 1..Len(options) |-> k], 1, arg, options)

\* mutant: a token that begins with a dash is never given to a positional option
match_option_dash_is_keyword(arg, options) ==
    LET split_opts == split_options(options)
        kw         == FirstMatch(split_opts.keyword, 1, arg, options)
    IN  IF kw # nullptr THEN kw
        ELSE IF arg # <<>> /\ arg[1] = "-" THEN nullptr
        ELSE FirstMatch(split_opts.positional, 1, arg, options)

match_option(arg, options) ==
    LET split_opts == split_options(options)
        kw         == FirstMatch(split_opts.keyword, 1, arg, options)
    IN  IF kw # nullptr THEN kw
        ELSE FirstMatch(split_opts.positional, 1, arg, options)

(***************************************************************************)
(* handle_match: the scan index it leaves in i, the strings it hands to    *)
(* the option's parse, the option after the call and the exception thrown. *)
(***************************************************************************)
InvalidArityError ==
    Exception("std::invalid_argument", "Invalid number of requested parameters.")

InsufficientArgumentsError == Exception("std::out_of_range", "Not enough arguments.")

\* mutant: an option that finds too few arguments is skipped without an error
handle_match_ignore_missing(idx, o, n, args) ==
    LET declared == get_param_count(o) IN
    IF declared < -1
    THEN [i |-> idx, strings |-> <<>>, called |-> FALSE, o |-> o,
          thrown |-> InvalidArityError]
    ELSE LET param_count == IF declared = -1 THEN n - idx - 1 ELSE declared IN
         IF idx + param_count >= n
         THEN [i |-> n - 1, strings |-> <<>>, called |-> FALSE, o |-> o,
               thrown |-> NoException]
         ELSE LET end     == idx + param_count + 1
                  strings == [j \in 1..(end - idx) |-> args[idx + j]]
                  r       == OptionBase_parse(o, strings)
              IN  [i |-> end - 1, strings |-> strings, called |-> TRUE, o |-> r.o,
                   thrown |-> r.thrown]

\* mutant: "all remaining arguments" leaves the last one out
handle_match_rest_short(idx, o, n, args) ==
    LET declared == get_param_count(o) IN
    IF declared < -1
    THEN [i |-> idx, strings |-> <<>>, called |-> FALSE, o |-> o,
          thrown |-> InvalidArityError]
    ELSE LET param_count == IF declared = -1 THEN n - idx - 2 ELSE declared IN
         IF idx + param_count >= n
         THEN [i |-> idx, strings |-> <<>>, called |-> FALSE, o |-> o,
               thrown |-> InsufficientArgumentsError]
         ELSE LET end     == idx + param_count + 1
                  strings == [j \in 1..(end - idx) |-> args[idx + j]]
                  r       == OptionBase_parse(o, strings)
              IN  [i |-> end - 1, strings |-> strings, called |-> TRUE, o |-> r.o,
                   thrown |-> r.thrown]

\* mutant: an option that asks for all remaining arguments needs at least one
handle_match_rest_needs_one(idx, o, n, args) ==
    LET declared == get_param_count(o) IN
    IF declared < -1
    THEN [i |-> idx, strings |-> <<>>, called |-> FALSE, o |-> o, thrown |-> InvalidArityError]
    ELSE LET param_count == IF declared = -1
                            THEN (IF n - idx - 1 = 0 THEN 1 ELSE n - idx - 1)
                            ELSE declared IN
         IF idx + param_count >= n
         THEN [i |-> idx, strings |-> <<>>, called |-> FALSE, o |-> o, thrown |-> InsufficientArgumentsError]
         ELSE LET end == idx + param_count + 1
                  strings == [j \in 1..(end - idx) |-> args[idx + j]]
                  r == OptionBase_parse(o, strings)
              IN [i |-> end - 1, strings |-> strings, called |-> TRUE, o |-> r.o, thrown |-> r.thrown]

\* mutant: the slice is handed over last token first
handle_match_reversed(idx, o, n, args) ==
    LET declared == get_param_count(o) IN
    IF declared < -1
    THEN [i |-> idx, strings |-> <<>>, called |-> FALSE, o |-> o, thrown |-> InvalidArityError]
    ELSE LET param_count == IF declared = -1 THEN n - idx - 1 ELSE declared IN
         IF idx + param_count >= n
         THEN [i |-> idx, strings |-> <<>>, called |-> FALSE, o |-> o, thrown |-> InsufficientArgumentsError]
         ELSE LET end == idx + param_count + 1
                  strings == [j \in 1..(end - idx) |-> args[end + 1 - j]]
                  r == OptionBase_parse(o, strings)
              IN [i |-> end - 1, strings |-> strings, called |-> TRUE, o |-> r.o, thrown |-> r.thrown]

\* mutant: the scan index is left on the matched token
handle_match_no_advance(idx, o, n, args) ==
    LET declared == get_param_count(o) IN
    IF declared < -1
    THEN [i |-> idx, strings |-> <<>>, called |-> FALSE, o |-> o, thrown |-> InvalidArityError]
    ELSE LET param_count == IF declared = -1 THEN n - idx - 1 ELSE declared IN
         IF idx + param_count >= n
         THEN [i |-> idx, strings |-> <<>>, called |-> FALSE, o |-> o, thrown |-> InsufficientArgumentsError]
         ELSE LET end == idx + param_count + 1
                  strings == [j \in 1..(end - idx) |-> args[idx + j]]
                  r == OptionBase_parse(o, strings)
              IN [i |-> idx, strings |-> strings, called |-> TRUE, o |-> r.o, thrown |-> r.thrown]

\* mutant: every negative count asks for all remaining arguments
handle_match_negative_is_rest(idx, o, n, args) ==
    LET param_count == IF get_param_count(o) < 0 THEN n - idx - 1 ELSE get_param_count(o) IN
    IF idx + param_count >= n
    THEN [i |-> idx, strings |-> <<>>, called |-> FALSE, o |-> o, thrown |-> InsufficientArgumentsError]
    ELSE LET end == idx + param_count + 1
             strings == [j \in 1..(end - idx) |-> args[idx + j]]
             r == OptionBase_parse(o, strings)
         IN [i |-> end - 1, strings |-> strings, called |-> TRUE, o |-> r.o, thrown |-> r.thrown]

handle_match(idx, o, n, args) ==
    LET declared == get_param_count(o) IN
    IF declared < -1
    THEN [i |-> idx, strings |-> <<>>, called |-> FALSE, o |-> o,
          thrown |-> InvalidArityError]
    ELSE LET param_count == IF declared = -1 THEN n - idx - 1 ELSE declared IN
         IF idx + param_count >= n
         THEN [i |-> idx, strings |-> <<>>, called |-> FALSE, o |-> o,
               thrown |-> InsufficientArgumentsError]
         ELSE LET end     == idx + param_count + 1
                  strings == [j \in 1..(end - idx) |-> args[idx + j]]
                  r       == OptionBase_parse(o, strings)
              IN  [i |-> end - 1, strings |-> strings, called |-> TRUE, o |-> r.o,
                   thrown |-> r.thrown]

(***************************************************************************)
(* The registries and the command lines of the model.                      *)
(***************************************************************************)
Tok_v     == <<"-", "v">>
Tok_V     == <<"-", "V">>
Tok_n     == <<"-", "n">>
Tok_r     == <<"-", "r">>
Tok_42    == <<"4", "2">>

Tokens == {Tok_v, Tok_V, Tok_n, Tok_r, Tok_42}

DefaultInt == 7

Flag    == KeywordOption("bool", <<Tok_v, Tok_V>>, "verbose", FALSE)
Count   == KeywordOption("int", <<Tok_n>>, "count", DefaultInt)
Rest    == RestOption(<<Tok_r>>, "rest")
File    == PositionalOption("string", "file", "input file", TRUE, <<>>)
Out     == PositionalOption("string", "out", "output file", FALSE, <<>>)

Pool == {Flag, Count, Rest, File, Out}

\* the sequences of at most n elements of S
SeqsUpTo(S, n) == UNION {[1..m -> S] : m \in 0..n}

\* the registries over a pool: at most MaxOpts different options, in any order
RegistriesOver(pool) ==
    {r \in SeqsUpTo(pool, MaxOpts) : \A a, b \in 1..Len(r) : a # b => r[a] # r[b]}

Registries == RegistriesOver(Pool)

Argvs == SeqsUpTo(Tokens, MaxArgc)

Skips == 0..MaxSkip

(***************************************************************************)
(* The registries and the command lines for the conversion of numbers:     *)
(* numeric options only, and tokens that are numbers, are not, or are in   *)
(* part.                                                                   *)
(***************************************************************************)
Tok_abc    == <<"a", "b", "c">>
Tok_12abc  == <<"1", "2", "a", "b", "c">>
Tok_minus5 == <<"-", "5">>
Tok_sp9    == <<" ", "9">>
Tok_empty  == <<>>
Tok_big    == <<"2", "1", "4", "7", "4", "8", "3", "6", "4", "8">>

ConvTokens == {Tok_n, Tok_42, Tok_12abc, Tok_abc, Tok_minus5, Tok_sp9, Tok_empty, Tok_big}

Number == PositionalOption("int", "number", "a number", FALSE, DefaultInt)

ConvPool == {Count, Number}

ConvRegistries == RegistriesOver(ConvPool)

ConvArgvs == SeqsUpTo(ConvTokens, MaxArgc)

(***************************************************************************)
(* The registries and the command lines for the errors: numeric options, a *)
(* misconfigured option, and command lines one token longer, so that an    *)
(* option can be matched, and matched again, before the failing token.     *)
(***************************************************************************)
Tok_b == <<"-", "b">>

ErrTokens == {Tok_n, Tok_b, Tok_42, Tok_abc}

Misconfigured == MisconfiguredOption(<<Tok_b>>, "misconfigured")

ErrPool == {Count, Number, Misconfigured}

ErrRegistries == RegistriesOver(ErrPool)

ErrArgvs == SeqsUpTo(ErrTokens, MaxArgc + 1)

(***************************************************************************)
(* The registries and the command lines for the keyword identifiers: a     *)
(* string option and a flag with one identifier each, and tokens that are  *)
(* an identifier, a part of it, more than it, or it in another case.       *)
(***************************************************************************)
Tok_name    == <<"-", "-", "n", "a", "m", "e">>
Tok_Name    == <<"-", "-", "N", "a", "m", "e">>
Tok_nam     == <<"-", "-", "n", "a", "m">>
Tok_names   == <<"-", "-", "n", "a", "m", "e", "s">>
Tok_verbose == <<"-", "-", "v", "e", "r", "b", "o", "s", "e">>

KwTokens == {Tok_name, Tok_Name, Tok_nam, Tok_names, Tok_verbose}

Name == KeywordOption("string", <<Tok_name>>, "name", <<>>)

Verbose == KeywordOption("bool", <<Tok_verbose>>, "verbose", FALSE)

KwPool == {Name, Verbose}

KwRegistries == RegistriesOver(KwPool)

KwArgvs == SeqsUpTo(KwTokens, MaxArgc)

(***************************************************************************)
(* The registries and the command lines for calls of parse one after the   *)
(* other on the same registry: a flag, a positional string and a           *)
(* positional number; "abc" is no number.                                  *)
(***************************************************************************)
RepeatTokens == {Tok_v, Tok_abc, Tok_42}

RepeatPool == {Flag, File, Number}

RepeatRegistries == RegistriesOver(RepeatPool)

RepeatArgvs == SeqsUpTo(RepeatTokens, MaxArgc)

(***************************************************************************)
(* The registries and the command lines for an identifier that comes       *)
(* several times: a numeric and a string option with one parameter each,   *)
(* two numbers, and command lines long enough for two occurrences.         *)
(***************************************************************************)
LastTokens == {Tok_n, Tok_name, Tok_42, Tok_minus5}

LastPool == {Count, Name}

LastRegistries == RegistriesOver(LastPool)

LastArgvs == SeqsUpTo(LastTokens, MaxArgc + 1)

(***************************************************************************)
(* The registries and the command lines of the example of a whole call: a  *)
(* flag, a numeric keyword option and a required positional option in any *)
(* number and order, and the command line of the example with any of its   *)
(* tokens left out.                                                        *)
(***************************************************************************)
Tok_prog    == <<"p", "r", "o", "g">>
Tok_count   == <<"-", "-", "c", "o", "u", "n", "t">>
Tok_3       == <<"3">>
Tok_input   == <<"i", "n", "p", "u", "t", ".", "t", "x", "t">>
Tok_unknown == <<"-", "-", "u", "n", "k", "n", "o", "w", "n">>

ExampleArgv == <<Tok_prog, Tok_verbose, Tok_count, Tok_3, Tok_input, Tok_unknown>>

RECURSIVE Subsequence(_, _, _)
Subsequence(s, S, k) ==
    IF k > Len(s) THEN <<>>
    ELSE IF k \in S THEN <<s[k]>> \o Subsequence(s, S, k + 1)
    ELSE Subsequence(s, S, k + 1)

ExampleArgvs == {Subsequence(ExampleArgv, S, 1) : S \in SUBSET (1..Len(ExampleArgv))}

CountLong == KeywordOption("int", <<Tok_count>>, "count", DefaultInt)

ExamplePool == {Verbose, CountLong, File}

ExampleRegistries ==
    {r \in SeqsUpTo(ExamplePool, Cardinality(ExamplePool)) :
        \A a, b \in 1..Len(r) : a # b => r[a] # r[b]}

(***************************************************************************)
(* The registries and the command lines for shared identifiers: a flag     *)
(* with two identifiers, a flag with the first of them, and a numeric      *)
(* option with the first of them and one of its own.                       *)
(***************************************************************************)
Quiet == KeywordOption("bool", <<Tok_v>>, "quiet", FALSE)

CountV == KeywordOption("int", <<Tok_v, Tok_n>>, "count", DefaultInt)

SharedPool == {Flag, Quiet, CountV}

SharedRegistries == RegistriesOver(SharedPool)

SharedTokens == {Tok_v, Tok_V, Tok_n, Tok_42}

SharedArgvs == SeqsUpTo(SharedTokens, MaxArgc)

(***************************************************************************)
(* The state after the caller built the options and the registry.          *)
(***************************************************************************)
\* no object of the map version, no stream
NoObject == [version |-> "none"]

NoStream == [flags |-> "none"]

InitWith(registries) ==
    /\ map_parser = NoObject
    /\ os = NoStream
    /\ opts \in registries
    /\ argc = 0
    /\ argv = <<>>
    /\ skip_first_n = 0
    /\ i = 0
    /\ unrecognised = <<>>
    /\ pc = "constructed"
    /\ ret = <<>>
    /\ thrown = NoException
    /\ opts0 = opts
    /\ log = <<>>

Init == InitWith(Registries)

InitConv == InitWith(ConvRegistries)

InitErr == InitWith(ErrRegistries)

InitShared == InitWith(SharedRegistries)

InitKw == InitWith(KwRegistries)

InitExample == InitWith(ExampleRegistries)

InitRepeat == InitWith(RepeatRegistries)

InitLast == InitWith(LastRegistries)

(***************************************************************************)
(* parse, up to its loop: the caller passes a command line and a skip      *)
(* count, the vector of unrecognised tokens is empty and the scan starts   *)
(* at skip_first_n.                                                        *)
(***************************************************************************)
\* mutant: the scan starts at the first token whatever skip_first_n is
parse_entry_from_zero(args, skip) ==
    /\ argv' = args
    /\ argc' = Len(args)
    /\ skip_first_n' = skip
    /\ i' = 0
    /\ unrecognised' = <<>>
    /\ pc' = "scan"
    /\ opts0' = opts
    /\ log' = <<>>
    /\ ret' = <<>>
    /\ thrown' = NoException
    /\ UNCHANGED <<opts, map_parser, os>>

\* mutant: every call starts with all options unset again
parse_entry_fresh(args, skip) ==
    /\ argv' = args
    /\ argc' = Len(args)
    /\ skip_first_n' = skip
    /\ i' = skip
    /\ unrecognised' = <<>>
    /\ pc' = "scan"
    /\ opts' = [k \in DOMAIN opts |-> [opts[k] EXCEPT !.is_set_ = FALSE]]
    /\ opts0' = opts'
    /\ log' = <<>>
    /\ ret' = <<>>
    /\ thrown' = NoException
    /\ UNCHANGED <<map_parser, os>>

parse_entry(args, skip) ==
    /\ argv' = args
    /\ argc' = Len(args)
    /\ skip_first_n' = skip
    /\ i' = skip
    /\ unrecognised' = <<>>
    /\ pc' = "scan"
    /\ opts0' = opts
    /\ log' = <<>>
    /\ ret' = <<>>
    /\ thrown' = NoException
    /\ UNCHANGED <<opts, map_parser, os>>

parse_call ==
    /\ pc = "constructed"
    /\ \E args \in Argvs, skip \in Skips : parse_entry(args, skip)

parse_call_conv ==
    /\ pc = "constructed"
    /\ \E args \in ConvArgvs, skip \in Skips : parse_entry(args, skip)

parse_call_shared ==
    /\ pc = "constructed"
    /\ \E args \in SharedArgvs, skip \in Skips : parse_entry(args, skip)

parse_call_err ==
    /\ pc = "constructed"
    /\ \E args \in ErrArgvs, skip \in Skips : parse_entry(args, skip)

parse_call_kw ==
    /\ pc = "constructed"
    /\ \E args \in KwArgvs, skip \in Skips : parse_entry(args, skip)

\* parse called again on the registry of an earlier call, which returned or threw
parse_call_repeat ==
    /\ pc \in {"constructed", "returned", "thrown"}
    /\ \E args \in RepeatArgvs : parse_entry(args, 0)

parse_call_last ==
    /\ pc = "constructed"
    /\ \E args \in LastArgvs, skip \in Skips : parse_entry(args, skip)

parse_call_example ==
    /\ pc = "constructed"
    /\ \E args \in ExampleArgvs, skip \in Skips : parse_entry(args, skip)

(***************************************************************************)
(* One iteration of parse's loop: match_option on argv[i], then            *)
(* handle_match or the push_back, then the loop's i++.                     *)
(*                                                                         *)
(* The log keeps, for the iteration at scan index idx: the option matched  *)
(* (nullptr if none), that option before and after handle_match, the       *)
(* strings handed to its parse and whether parse was called, the exception *)
(* thrown, and the scan index of the next iteration.                       *)
(***************************************************************************)
NoOption == [type |-> "none"]

\* mutant: the token is put in front of the vector
push_front(vec, x) == <<x>> \o vec

push_back(vec, x) == Append(vec, x)

parse_loop ==
    /\ pc = "scan"
    /\ i < argc
    /\ LET opt == match_option(argv[i + 1], opts) IN
       IF opt # nullptr
       THEN LET hm == handle_match(i, opts[opt], argc, argv) IN
            /\ opts' = [opts EXCEPT ![opt] = hm.o]
            /\ log' = Append(log, [idx |-> i, opt |-> opt, before |-> opts[opt],
                                   o |-> hm.o, strings |-> hm.strings,
                                   called |-> hm.called, thrown |-> hm.thrown,
                                   next |-> hm.i + 1])
            /\ IF hm.thrown = NoException
               THEN /\ i' = hm.i + 1
                    /\ UNCHANGED <<pc, thrown>>
               ELSE /\ i' = hm.i
                    /\ pc' = "thrown"
                    /\ thrown' = hm.thrown
            /\ UNCHANGED unrecognised
       ELSE /\ unrecognised' = push_back(unrecognised, argv[i + 1])
            /\ log' = Append(log, [idx |-> i, opt |-> nullptr, before |-> NoOption,
                                   o |-> NoOption, strings |-> <<>>,
                                   called |-> FALSE, thrown |-> NoException,
                                   next |-> i + 1])
            /\ i' = i + 1
            /\ UNCHANGED <<opts, pc, thrown>>
    /\ UNCHANGED <<argc, argv, skip_first_n, ret, opts0, map_parser, os>>

\* the loop condition fails: parse returns the unrecognised tokens
parse_return ==
    /\ pc = "scan"
    /\ i >= argc
    /\ pc' = "returned"
    /\ ret' = unrecognised
    /\ UNCHANGED <<opts, argc, argv, skip_first_n, i, unrecognised, thrown, opts0, log,
                   map_parser, os>>

Next == parse_call \/ parse_loop \/ parse_return

Spec == Init /\ [][Next]_vars

NextConv == parse_call_conv \/ parse_loop \/ parse_return

SpecConv == InitConv /\ [][NextConv]_vars

NextShared == parse_call_shared \/ parse_loop \/ parse_return

SpecShared == InitShared /\ [][NextShared]_vars

NextErr == parse_call_err \/ parse_loop \/ parse_return

SpecErr == InitErr /\ [][NextErr]_vars

NextKw == parse_call_kw \/ parse_loop \/ parse_return

SpecKw == InitKw /\ [][NextKw]_vars

NextExample == parse_call_example \/ parse_loop \/ parse_return

NextLast == parse_call_last \/ parse_loop \/ parse_return

SpecLast == InitLast /\ [][NextLast]_vars

NextRepeat == parse_call_repeat \/ parse_loop \/ parse_return

SpecRepeat == InitRepeat /\ [][NextRepeat]_vars

SpecExample == InitExample /\ [][NextExample]_vars

(***************************************************************************)
(* The class ArgParser: the registry options_ (opts) and the vector        *)
(* unrecognised are members of the object, and parse can be called on the  *)
(* object again and again.  Its registries hold keyword options only, as   *)
(* the first version of the class knew no other; parse is not called again *)
(* once the member unrecognised holds MaxUnrecognised tokens.              *)
(***************************************************************************)
ClassTokens == {Tok_v, Tok_n, Tok_42}

ClassPool == {Flag, Count}

ClassRegistries == RegistriesOver(ClassPool)

ClassArgvs == SeqsUpTo(ClassTokens, MaxArgc)

\* ArgParser::ArgParser: unrecognised is default-constructed
InitClass == InitWith(ClassRegistries)

ArgParser_match_option(arg, options) == match_option(arg, options)

ArgParser_handle_match(idx, o, n, args) == handle_match(idx, o, n, args)

ArgParser_parse_entry(args, skip) ==
    /\ argv' = args
    /\ argc' = Len(args)
    /\ skip_first_n' = skip
    /\ i' = skip
    /\ pc' = "scan"
    /\ thrown' = NoException
    /\ opts0' = opts
    /\ log' = <<>>
    /\ UNCHANGED <<opts, unrecognised, ret, map_parser, os>>

ArgParser_parse_call ==
    /\ pc \in {"constructed", "returned", "thrown"}
    /\ Len(unrecognised) < MaxUnrecognised
    /\ \E args \in ClassArgvs, skip \in Skips : ArgParser_parse_entry(args, skip)

ArgParser_parse_loop ==
    /\ pc = "scan"
    /\ i < argc
    /\ LET opt == ArgParser_match_option(argv[i + 1], opts) IN
       IF opt # nullptr
       THEN LET hm == ArgParser_handle_match(i, opts[opt], argc, argv) IN
            /\ opts' = [opts EXCEPT ![opt] = hm.o]
            /\ log' = Append(log, [idx |-> i, opt |-> opt, before |-> opts[opt],
                                   o |-> hm.o, strings |-> hm.strings,
                                   called |-> hm.called, thrown |-> hm.thrown,
                                   next |-> hm.i + 1])
            /\ IF hm.thrown = NoException
               THEN /\ i' = hm.i + 1
                    /\ UNCHANGED <<pc, thrown>>
               ELSE /\ i' = hm.i
                    /\ pc' = "thrown"
                    /\ thrown' = hm.thrown
            /\ UNCHANGED unrecognised
       ELSE /\ unrecognised' = push_back(unrecognised, argv[i + 1])
            /\ log' = Append(log, [idx |-> i, opt |-> nullptr, before |-> NoOption,
                                   o |-> NoOption, strings |-> <<>>,
                                   called |-> FALSE, thrown |-> NoException,
                                   next |-> i + 1])
            /\ i' = i + 1
            /\ UNCHANGED <<opts, pc, thrown>>
    /\ UNCHANGED <<argc, argv, skip_first_n, ret, opts0, map_parser, os>>

\* return this->unrecognised.empty()
ArgParser_parse_return ==
    /\ pc = "scan"
    /\ i >= argc
    /\ pc' = "returned"
    /\ ret' = (unrecognised = <<>>)
    /\ UNCHANGED <<opts, argc, argv, skip_first_n, i, unrecognised, thrown, opts0, log,
                   map_parser, os>>

NextClass == ArgParser_parse_call \/ ArgParser_parse_loop \/ ArgParser_parse_return

SpecClass == InitClass /\ [][NextClass]_vars

(***************************************************************************)
(* The ArgParser that keeps the values in maps (src/unnamed/part_001 and   *)
(* its earlier copy in src/argparser.tpp, lines 724-993).  An option is a  *)
(* struct with a name, identifiers and an OptionType; the object keeps     *)
(* one map from names to values for each type, the vector of unrecognised  *)
(* tokens and the three default values.  A std::string is a sequence of    *)
(* characters, "" the empty one.                                           *)
(*                                                                         *)
(* The two copies differ in the constructor: part_001 calls                *)
(* set_defaults(false, "", -1); the copy in argparser.tpp initialises      *)
(* options_ only, which leaves default_flag and default_int with           *)
(* indeterminate values (default_string is the empty string): any of the   *)
(* values of Indeterminate_bool and Indeterminate_int.                     *)
(***************************************************************************)
OptionType_FLAG   == "FLAG"
OptionType_STRING == "STRING"
OptionType_INT    == "INT"

Option(name, identifiers, opt_type, help) ==
    [name |-> name, identifiers |-> identifiers, opt_type |-> opt_type, help |-> help]

empty_map == [n \in {} |-> FALSE]

\* unordered_map::insert: a key that is in the map keeps its value
insert(map, key, value) ==
    IF key \in DOMAIN map THEN map ELSE map @@ (key :> value)

\* unordered_map::find and the test against end()
find(map, key) == IF key \in DOMAIN map THEN key ELSE "end"

\* std::stoi reads a number as the stream extraction does, and throws
\* std::invalid_argument with no digit, std::out_of_range out of the range of int
stoi(str) ==
    LET x == istream_extract_int(str)
    IN  IF ~x.fail THEN [val |-> x.val, thrown |-> NoException]
        ELSE IF x.val = 0
        THEN [val |-> 0, thrown |-> Exception("std::invalid_argument", "stoi")]
        ELSE [val |-> 0, thrown |-> Exception("std::out_of_range", "stoi")]

Indeterminate_bool == BOOLEAN

Indeterminate_int == {-1, 0, INT_MAX}

MapArgParser_set_defaults(obj, b, s_, n) ==
    [obj EXCEPT !.default_flag = b, !.default_string = s_, !.default_int = n]

\* the members after their default initialisation, before the constructor's body
MapArgParser_members(version, options, b, n) ==
    [version |-> version, options_ |-> options,
     options_flag |-> empty_map, options_string |-> empty_map, options_int |-> empty_map,
     unrecognised |-> <<>>,
     default_flag |-> b, default_string |-> <<>>, default_int |-> n,
     pc |-> "constructed", ret |-> FALSE, thrown |-> NoException,
     argv |-> <<>>, skip_first_n |-> 0, set_defaults_called |-> FALSE]

\* ArgParser::ArgParser of the two copies
MapArgParser(version, options, b, n) ==
    IF version = "part_001"
    THEN MapArgParser_set_defaults(MapArgParser_members(version, options, b, n), FALSE, <<>>, -1)
    ELSE MapArgParser_members(version, options, b, n)

MapArgParser_set_value(obj, opt, value) ==
    IF opt.opt_type = OptionType_FLAG
    THEN [obj |-> [obj EXCEPT !.options_flag = insert(@, opt.name, TRUE)],
          thrown |-> NoException]
    ELSE IF opt.opt_type = OptionType_STRING
    THEN [obj |-> [obj EXCEPT !.options_string = insert(@, opt.name, value)],
          thrown |-> NoException]
    ELSE LET n == stoi(value) IN
         IF n.thrown # NoException
         THEN [obj |-> obj, thrown |-> n.thrown]
         ELSE [obj |-> [obj EXCEPT !.options_int = insert(@, opt.name, n.val)],
               thrown |-> NoException]

\* the first option, in the order of options_, with an identifier equal to arg
RECURSIVE MapArgParser_find_option(_, _, _)
MapArgParser_find_option(options, arg, k) ==
    IF k > Len(options) THEN nullptr
    ELSE IF \E j \in 1..Len(options[k].identifiers) : options[k].identifiers[j] = arg
    THEN k
    ELSE MapArgParser_find_option(options, arg, k + 1)

MapArgParser_throw(obj, type, what, str) ==
    [obj EXCEPT !.pc = "thrown", !.thrown = [type |-> type, what |-> what, args |-> <<str>>]]

\* the loop of ArgParser::parse from the scan index idx, and its return
RECURSIVE MapArgParser_parse_loop(_, _, _)
MapArgParser_parse_loop(obj, args, idx) ==
    IF idx >= Len(args)
    THEN [obj EXCEPT !.pc = "returned", !.ret = (obj.unrecognised = <<>>)]
    ELSE LET k == MapArgParser_find_option(obj.options_, args[idx + 1], 1) IN
         IF k = nullptr
         THEN MapArgParser_parse_loop(
                  [obj EXCEPT !.unrecognised = push_back(@, args[idx + 1])], args, idx + 1)
         ELSE IF obj.options_[k].opt_type = OptionType_FLAG
         THEN MapArgParser_parse_loop(
                  MapArgParser_set_value(obj, obj.options_[k], <<>>).obj, args, idx + 1)
         ELSE IF idx + 1 < Len(args)
         THEN LET r == MapArgParser_set_value(obj, obj.options_[k], args[idx + 2]) IN
              IF r.thrown = NoException
              THEN MapArgParser_parse_loop(r.obj, args, idx + 2)
              ELSE IF r.thrown.type = "std::invalid_argument"
              THEN MapArgParser_throw(obj, "std::invalid_argument",
                                      "Invalid argument type after: ", args[idx + 1])
              ELSE [obj EXCEPT !.pc = "thrown", !.thrown = r.thrown]
         ELSE MapArgParser_throw(obj, "std::logic_error",
                                 "Missing argument after: ", args[idx + 1])

get_flag(obj, name) ==
    IF find(obj.options_flag, name) = "end" THEN obj.default_flag
    ELSE obj.options_flag[name]

get_string(obj, name) ==
    IF find(obj.options_string, name) = "end" THEN obj.default_string
    ELSE obj.options_string[name]

get_int(obj, name) ==
    IF find(obj.options_int, name) = "end" THEN obj.default_int
    ELSE obj.options_int[name]

(***************************************************************************)
(* The objects and the calls of the map version.                           *)
(***************************************************************************)
MapFlag   == Option("verbose", <<Tok_v, Tok_V>>, OptionType_FLAG, "verbose")
MapString == Option("name", <<Tok_name>>, OptionType_STRING, "name")
MapInt    == Option("count", <<Tok_n>>, OptionType_INT, "count")

MapPool == {MapFlag, MapString, MapInt}

MapRegistries == RegistriesOver(MapPool)

MapTokens == {Tok_v, Tok_name, Tok_n, Tok_42}

MapArgvs == SeqsUpTo(MapTokens, MaxArgc)

\* the names asked for: those of the options and one of no option
MapNames == {"verbose", "name", "count", "none"}

DefaultStrings == {<<>>, Tok_42}

InitMap ==
    /\ opts = <<>>
    /\ argc = 0
    /\ argv = <<>>
    /\ skip_first_n = 0
    /\ i = 0
    /\ unrecognised = <<>>
    /\ pc = "constructed"
    /\ ret = <<>>
    /\ thrown = NoException
    /\ opts0 = <<>>
    /\ log = <<>>
    /\ os = NoStream
    /\ \E options \in MapRegistries :
           \/ map_parser = MapArgParser("part_001", options, FALSE, 0)
           \/ \E b \in Indeterminate_bool, n \in Indeterminate_int :
                  map_parser = MapArgParser("argparser.tpp", options, b, n)

MapArgParser_set_defaults_call ==
    /\ ~map_parser.set_defaults_called
    /\ \E b \in BOOLEAN, s_ \in DefaultStrings, n \in {-1, DefaultInt} :
           map_parser' = [MapArgParser_set_defaults(map_parser, b, s_, n)
                              EXCEPT !.set_defaults_called = TRUE]
    /\ UNCHANGED <<opts, argc, argv, skip_first_n, i, unrecognised, pc, ret, thrown,
                   opts0, log, os>>

MapArgParser_parse_call ==
    /\ map_parser.pc = "constructed"
    /\ \E args \in MapArgvs, skip \in Skips :
           map_parser' = MapArgParser_parse_loop(
                             [map_parser EXCEPT !.argv = args, !.skip_first_n = skip],
                             args, skip)
    /\ UNCHANGED <<opts, argc, argv, skip_first_n, i, unrecognised, pc, ret, thrown,
                   opts0, log, os>>

NextMap == MapArgParser_set_defaults_call \/ MapArgParser_parse_call

SpecMap == InitMap /\ [][NextMap]_vars

(***************************************************************************)
(* print_help.  The stream os has its format flags (the adjustment only),  *)
(* its fill character, the field width set by std::setw and the            *)
(* characters written so far.  A formatted insertion pads the string to    *)
(* the field width, on the side the adjustment says, and resets the width. *)
(* The names and help texts of the options printed are sequences of        *)
(* characters, as the tokens are.                                          *)
(*                                                                         *)
(* The device behind the stream accepts room more characters (NoLimit: it  *)
(* never fails).  A write it does not accept sets the stream's badbit;     *)
(* with badbit in the stream's exceptions() mask std::ios_base::failure is *)
(* thrown out of the insertion and so out of print_help, which catches     *)
(* nothing: thrown is then true and no later statement of print_help runs. *)
(* A stream that is bad writes nothing.                                    *)
(***************************************************************************)
Fill(c, n) == [k \in 1..n |-> c]

NoLimit == -1

\* os << str, for a string or a character
put(stream, str) ==
    LET pad    == IF stream.width > Len(str) THEN stream.width - Len(str) ELSE 0
        padded == IF stream.flags = "left"
                  THEN str \o Fill(stream.fill, pad)
                  ELSE Fill(stream.fill, pad) \o str
    IN  IF stream.thrown \/ stream.state = "bad" THEN stream
        ELSE IF stream.room = NoLimit
        THEN [stream EXCEPT !.text = @ \o padded, !.width = 0]
        ELSE IF Len(padded) <= stream.room
        THEN [stream EXCEPT !.text = @ \o padded, !.width = 0,
                            !.room = @ - Len(padded)]
        ELSE [stream EXCEPT !.text = @ \o SubSeq(padded, 1, stream.room),
                            !.room = 0, !.state = "bad",
                            !.thrown = stream.exceptions]

\* os << std::setw(n); a size_t below 0 has wrapped and is negative as an int
setw(stream, n) == IF stream.thrown THEN stream ELSE [stream EXCEPT !.width = n]

\* os << std::left
left(stream) == IF stream.thrown THEN stream ELSE [stream EXCEPT !.flags = "left"]

\* os.flags(fmtfl), a statement that an exception on its way out skips
flags(stream, fmtfl) == IF stream.thrown THEN stream ELSE [stream EXCEPT !.flags = fmtfl]

\* mutant: the name of a positional option is printed bare, required or not
PositionalOptionBase_get_help_bare(o) == [first |-> o.name, second |-> o.help]

PositionalOptionBase_get_help(o) ==
    [first  |-> IF o.is_required THEN o.name ELSE <<"[">> \o o.name \o <<"]">>,
     second |-> o.help]

RECURSIVE JoinIdentifiers(_, _, _)
JoinIdentifiers(identifiers, k, tmp) ==
    IF k > Len(identifiers) THEN tmp
    ELSE IF k = 1 THEN JoinIdentifiers(identifiers, k + 1, tmp \o identifiers[k])
    ELSE JoinIdentifiers(identifiers, k + 1, tmp \o <<",", " ">> \o identifiers[k])

KeywordOptionBase_get_help(o) ==
    [first |-> JoinIdentifiers(o.identifiers, 1, <<>>), second |-> o.help]

get_help(o) ==
    IF get_type(o) = POSITIONAL THEN PositionalOptionBase_get_help(o)
    ELSE KeywordOptionBase_get_help(o)

\* os << impl::indented(str, width): width fill characters after each line end
RECURSIVE indented(_, _, _, _)
indented(stream, str, width, k) ==
    IF k > Len(str) THEN stream
    ELSE LET c == put(stream, <<str[k]>>) IN
         IF str[k] \in {"\n", "\r"}
         THEN indented(put(c, Fill(" ", width)), str, width, k + 1)
         ELSE indented(c, str, width, k + 1)

Literal_Usage   == <<"U", "s", "a", "g", "e", ":", " ">>
Literal_options == <<" ", "<", "o", "p", "t", "i", "o", "n", "s", ">">>
Literal_Options == <<"\n", "O", "p", "t", "i", "o", "n", "s", ":", "\n">>

\* the loop over the positional options of the usage line
RECURSIVE print_help_usage(_, _, _, _)
print_help_usage(stream, options, positional, k) ==
    IF k > Len(positional) THEN stream
    ELSE print_help_usage(
             put(put(stream, <<" ">>), get_help(options[positional[k]]).first),
             options, positional, k + 1)

\* help.first.length() <= min_w - 2, in size_t: below 2 the difference wraps
\* to a value above every length
fits(first, min_w) == IF min_w < 2 THEN TRUE ELSE Len(first) <= min_w - 2

\* the loop over all the options
RECURSIVE print_help_entries(_, _, _, _)
print_help_entries(stream, options, min_w, k) ==
    IF k > Len(options) THEN stream
    ELSE LET help == get_help(options[k])
             head == IF fits(help.first, min_w)
                     THEN put(put(setw(stream, min_w - 2), help.first), <<" ", " ">>)
                     ELSE put(setw(put(put(stream, help.first), <<"\n">>), min_w), <<>>)
         IN  print_help_entries(
                 put(indented(head, help.second, min_w, 1), <<"\n">>),
                 options, min_w, k + 1)

print_help(stream, cmd, options, min_w) ==
    LET split_opts == split_options(options)
        fmtfl      == stream.flags
        usage      == put(put(left(stream), Literal_Usage), cmd)
        generic    == IF Len(split_opts.keyword) > 0 THEN put(usage, Literal_options)
                      ELSE usage
        names      == print_help_usage(generic, options, split_opts.positional, 1)
        entries    == print_help_entries(put(names, Literal_Options), options, min_w, 1)
    IN  flags(entries, fmtfl)

(***************************************************************************)
(* The registries, streams and arguments of print_help.                    *)
(***************************************************************************)
HelpIn   == PositionalOption("string", <<"i", "n">>, <<"s", "r", "c">>, TRUE, <<>>)
HelpOut  == PositionalOption("string", <<"o", "u", "t">>, <<"d", "s", "t", "\n", "x">>, FALSE, <<>>)
HelpFlag == KeywordOption("bool", <<Tok_v, Tok_V>>, <<"o", "n">>, FALSE)
HelpNum  == KeywordOption("int", <<Tok_n>>, <<"n", "u", "m">>, DefaultInt)

HelpPool == {HelpIn, HelpOut, HelpFlag, HelpNum}

HelpRegistries == RegistriesOver(HelpPool)

Cmds == {Tok_prog, <<"a">>}

MinWidths == {0, 6, 10}

\* a stream as it is given to print_help: good, nothing written; flags0 keeps
\* the flags it is given with
Stream(f, c, room, exceptions) ==
    [flags |-> f, fill |-> c, width |-> 0, text |-> <<>>,
     room |-> room, exceptions |-> exceptions, state |-> "good", thrown |-> FALSE,
     flags0 |-> f, cmd |-> <<>>, min_w |-> 0, printed |-> FALSE]

Streams == {Stream(f, c, NoLimit, FALSE) : f \in {"left", "right"}, c \in {" ", "."}}

\* streams on a device that accepts only so many characters
Rooms == {0, 12, 30}

FailingStreams ==
    {Stream(f, " ", room, exceptions) :
        f \in {"left", "right"}, room \in Rooms, exceptions \in BOOLEAN}

InitHelp ==
    /\ opts \in HelpRegistries
    /\ argc = 0
    /\ argv = <<>>
    /\ skip_first_n = 0
    /\ i = 0
    /\ unrecognised = <<>>
    /\ pc = "constructed"
    /\ ret = <<>>
    /\ thrown = NoException
    /\ opts0 = opts
    /\ log = <<>>
    /\ map_parser = NoObject
    /\ os \in Streams

\* print_help is called on a stream nothing was written to; the arguments
\* cmd and min_w are kept with the stream
print_help_call ==
    /\ ~os.printed
    /\ \E cmd \in Cmds, min_w \in MinWidths :
           os' = [print_help(os, cmd, opts, min_w)
                      EXCEPT !.cmd = cmd, !.min_w = min_w, !.printed = TRUE]
    /\ UNCHANGED <<opts, argc, argv, skip_first_n, i, unrecognised, pc, ret, thrown,
                   opts0, log, map_parser>>

NextHelp == print_help_call

SpecHelp == InitHelp /\ [][NextHelp]_vars

InitHelpFailing ==
    /\ opts \in HelpRegistries
    /\ argc = 0
    /\ argv = <<>>
    /\ skip_first_n = 0
    /\ i = 0
    /\ unrecognised = <<>>
    /\ pc = "constructed"
    /\ ret = <<>>
    /\ thrown = NoException
    /\ opts0 = opts
    /\ log = <<>>
    /\ map_parser = NoObject
    /\ os \in FailingStreams

SpecHelpFailing == InitHelpFailing /\ [][NextHelp]_vars

(***************************************************************************)
(* parse as a function of its arguments: the same loop, run to its end on  *)
(* the registry options and the command line args from the scan index idx, *)
(* with unrec the unrecognised tokens so far.                              *)
(***************************************************************************)
RECURSIVE parse_scan(_, _, _, _)
parse_scan(options, args, idx, unrec) ==
    IF idx >= Len(args)
    THEN [opts |-> options, pc |-> "returned", ret |-> unrec, thrown |-> NoException]
    ELSE LET opt == match_option(args[idx + 1], options) IN
         IF opt # nullptr
         THEN LET hm == handle_match(idx, options[opt], Len(args), args)
                  after == [options EXCEPT ![opt] = hm.o]
              IN  IF hm.thrown = NoException
                  THEN parse_scan(after, args, hm.i + 1, unrec)
                  ELSE [opts |-> after, pc |-> "thrown", ret |-> <<>>, thrown |-> hm.thrown]
         ELSE parse_scan(options, args, idx + 1, push_back(unrec, args[idx + 1]))

parse(args, options, skip) == parse_scan(options, args, skip, <<>>)

(***************************************************************************)
(* Vocabulary of the properties.                                           *)
(***************************************************************************)
Ids(o) == {o.identifiers[j] : j \in 1..Len(o.identifiers)}

\* the token the matcher was given in the iteration e of the log
Tok(e) == argv[log[e].idx + 1]

Matched(e) == log[e].opt # nullptr

KeywordsOf(options) == {k \in 1..Len(options) : options[k].type = KEYWORD}

PositionalsOf(options) == {k \in 1..Len(options) : options[k].type = POSITIONAL}

IsKeywordId(t) == \E k \in KeywordsOf(opts) : t \in Ids(opts[k])

Finished == pc \in {"returned", "thrown"}

\* the token a numeric option converts: its first string, or the one after
\* the identifier
ValueToken(e) ==
    IF log[e].before.type = POSITIONAL THEN log[e].strings[1] ELSE log[e].strings[2]

Converts(e) == Matched(e) /\ log[e].called /\ log[e].before.T = "int"

(***************************************************************************)
(* Decimal numerals of int, written without the library: optional white    *)
(* space, an optional sign, one or more digits and nothing else, the value *)
(* in the range of int.                                                    *)
(***************************************************************************)
MaxDigits == <<"2", "1", "4", "7", "4", "8", "3", "6", "4", "7">>
MinDigits == <<"2", "1", "4", "7", "4", "8", "3", "6", "4", "8">>

RECURSIVE StripSpace(_)
StripSpace(t) == IF t # <<>> /\ IsSpace(Head(t)) THEN StripSpace(Tail(t)) ELSE t

RECURSIVE StripZeros(_)
StripZeros(ds) == IF Len(ds) > 1 /\ Head(ds) = "0" THEN StripZeros(Tail(ds)) ELSE ds

RECURSIVE DigitsLeq(_, _)
DigitsLeq(a, b) ==
    \/ a = <<>>
    \/ DigitVal(Head(a)) < DigitVal(Head(b))
    \/ Head(a) = Head(b) /\ DigitsLeq(Tail(a), Tail(b))

NumeralNegative(t) == LET u == StripSpace(t) IN u # <<>> /\ Head(u) = "-"

NumeralDigits(t) ==
    LET u == StripSpace(t)
    IN  IF u # <<>> /\ Head(u) \in {"+", "-"} THEN Tail(u) ELSE u

IsIntNumeral(t) ==
    LET ds == NumeralDigits(t)
        z  == StripZeros(ds)
    IN  /\ ds # <<>>
        /\ \A k \in 1..Len(ds) : IsDigit(ds[k])
        /\ \/ Len(z) < 10
           \/ Len(z) = 10 /\ DigitsLeq(z, IF NumeralNegative(t) THEN MinDigits ELSE MaxDigits)

RECURSIVE SignedValue(_, _, _)
SignedValue(ds, sign, acc) ==
    IF ds = <<>> THEN acc
    ELSE SignedValue(Tail(ds), sign, acc * 10 + sign * DigitVal(Head(ds)))

NumeralValue(t) == SignedValue(NumeralDigits(t), IF NumeralNegative(t) THEN -1 ELSE 1, 0)

(***************************************************************************)
(* C1.  Every keyword option is tried before any positional one, whatever  *)
(* the registration order: a scanned token that is an identifier of a      *)
(* keyword option of the registry is matched to a keyword option that has  *)
(* it as an identifier, never to a positional option.                      *)
(***************************************************************************)
C1_KeywordBeforePositional ==
    \A e \in 1..Len(log) :
        IsKeywordId(Tok(e)) =>
            /\ Matched(e)
            /\ log[e].before.type = KEYWORD
            /\ Tok(e) \in Ids(log[e].before)

\* a keyword identifier was scanned while a positional option registered before
\* the keyword option was still unset
C1_Witness ==
    \E e \in 1..Len(log) :
        /\ IsKeywordId(Tok(e))
        /\ \E p \in PositionalsOf(opts) : p < log[e].opt /\ ~opts[p].is_set_

(***************************************************************************)
(* C2.  A numeric option fails with a ConversionError whenever its value   *)
(* token is not, as a whole, a numeral of the target type: trailing        *)
(* garbage after a numeric prefix fails like a token with no number in it. *)
(***************************************************************************)
C2_GarbageFails ==
    \A e \in 1..Len(log) :
        (Converts(e) /\ ~IsIntNumeral(ValueToken(e))) =>
            /\ log[e].thrown = ConversionError
            /\ pc = "thrown"

(***************************************************************************)
(* C3.  A numeric keyword option followed by a numeral of int, and a       *)
(* numeric positional option matched by one, gets the number as its value  *)
(* and is_set true, and no error is raised.                                *)
(***************************************************************************)
C3_ValidNumberIsStored ==
    \A e \in 1..Len(log) :
        (/\ Matched(e)
         /\ log[e].before.T = "int"
         /\ IF log[e].before.type = KEYWORD
            THEN log[e].idx + 1 < argc /\ IsIntNumeral(argv[log[e].idx + 2])
            ELSE IsIntNumeral(Tok(e))) =>
            /\ log[e].thrown = NoException
            /\ log[e].called
            /\ get_val(log[e].o) =
                   NumeralValue(IF log[e].before.type = KEYWORD
                                THEN argv[log[e].idx + 2] ELSE Tok(e))
            /\ log[e].o.is_set_
            /\ e = Len(log) => pc # "thrown"

\* both a keyword and a positional numeric option took a number, one of them
\* negative, and parse returned
C3_Witness ==
    /\ pc = "returned"
    /\ \E a, b \in 1..Len(opts) :
        /\ opts[a].type = KEYWORD /\ opts[a].T = "int"
        /\ opts[b].type = POSITIONAL /\ opts[b].T = "int"
        /\ opts[a].is_set_ /\ opts[b].is_set_
        /\ {get_val(opts[a]), get_val(opts[b])} = {42, -5}

C5_ErrorNamesIdentifier ==
    \A e \in 1..Len(log) :
        log[e].thrown.type = "std::out_of_range" =>
            \E a \in 1..Len(log[e].thrown.args) : log[e].thrown.args[a] = Tok(e)

(***************************************************************************)
(* C6.  A flag is true and set once one of its identifiers was scanned,    *)
(* however often and whichever identifier: every occurrence is matched to  *)
(* the flag, consumes only itself and leaves the flag true and set, and    *)
(* the flag stays so.                                                      *)
(***************************************************************************)
IsFlag(o) == o.type = KEYWORD /\ o.T = "bool"

C6_FlagIsIdempotent ==
    \A e \in 1..Len(log) :
        (\E k \in KeywordsOf(opts) : IsFlag(opts[k]) /\ Tok(e) \in Ids(opts[k])) =>
            /\ Matched(e)
            /\ IsFlag(log[e].before)
            /\ log[e].thrown = NoException
            /\ log[e].strings = <<Tok(e)>>
            /\ log[e].next = log[e].idx + 1
            /\ get_val(log[e].o) = TRUE /\ log[e].o.is_set_
            /\ get_val(opts[log[e].opt]) = TRUE /\ opts[log[e].opt].is_set_

\* the flag was found twice, by two different identifiers, and parse returned
C6_Witness ==
    /\ pc = "returned"
    /\ \E e, f \in 1..Len(log) :
        /\ e < f
        /\ Matched(e) /\ IsFlag(log[e].before)
        /\ log[f].opt = log[e].opt
        /\ Tok(e) # Tok(f)

(***************************************************************************)
(* C7.  With no token at or beyond the skip offset, parse returns an empty *)
(* vector, raises no error and leaves every option as it was.              *)
(***************************************************************************)
C7_NothingToScan ==
    (pc # "constructed" /\ skip_first_n >= argc) =>
        /\ pc \in {"scan", "returned"}
        /\ thrown = NoException
        /\ unrecognised = <<>>
        /\ log = <<>>
        /\ opts = opts0
        /\ pc = "returned" => ret = <<>>

\* parse returned although a skipped token could have set an option
C7_Witness ==
    /\ pc = "returned"
    /\ skip_first_n >= argc
    /\ argc >= 1
    /\ match_option(argv[1], opts) # nullptr

(***************************************************************************)
(* C8.  Positional options are filled in registration order: the k-th      *)
(* scanned token that is no keyword identifier goes to the k-th registered *)
(* positional option, which takes that token alone; a string option then   *)
(* holds it.                                                               *)
(***************************************************************************)
RECURSIVE NonKeywordScans(_)
NonKeywordScans(e) ==
    IF e > Len(log) THEN <<>>
    ELSE IF IsKeywordId(Tok(e)) THEN NonKeywordScans(e + 1)
    ELSE <<e>> \o NonKeywordScans(e + 1)

C8_PositionalsInOrder ==
    LET nk  == NonKeywordScans(1)
        pos == split_options(opts).positional
    IN  \A k \in 1..Len(nk) :
            k <= Len(pos) =>
                /\ log[nk[k]].opt = pos[k]
                /\ log[nk[k]].strings = <<Tok(nk[k])>>
                /\ log[nk[k]].before.T = "string" =>
                       /\ log[nk[k]].thrown = NoException
                       /\ get_val(log[nk[k]].o) = Tok(nk[k])
                       /\ log[nk[k]].o.is_set_
                       /\ opts[pos[k]] = log[nk[k]].o

\* two positional options took two different tokens, and a third token was
\* left over
C8_Witness ==
    /\ pc = "returned"
    /\ Len(split_options(opts).positional) = 2
    /\ Len(log) = 3
    /\ Tok(1) # Tok(2)
    /\ get_val(opts[split_options(opts).positional[1]]) = Tok(1)
    /\ get_val(opts[split_options(opts).positional[2]]) = Tok(2)

(***************************************************************************)
(* C9.  An option that asks for all remaining arguments (-1), matched at   *)
(* index i, gets the matched token followed by the n-i-1 remaining tokens  *)
(* in order, and the scan ends there: no later token is matched or put in  *)
(* the unrecognised vector.                                                *)
(***************************************************************************)
C9_RestTakesAll ==
    \A e \in 1..Len(log) :
        (Matched(e) /\ get_param_count(log[e].before) = -1) =>
            /\ log[e].called
            /\ log[e].strings = SubSeq(argv, log[e].idx + 1, argc)
            /\ log[e].next = argc
            /\ e = Len(log)
            /\ i = argc
            /\ \A u \in 1..Len(unrecognised) :
                   \E f \in 1..(e - 1) : ~Matched(f) /\ Tok(f) = unrecognised[u]
            /\ Len(unrecognised) = Cardinality({f \in 1..(e - 1) : ~Matched(f)})

\* the option took two tokens, the last of them a keyword identifier
C9_Witness ==
    /\ pc = "returned"
    /\ \E e \in 1..Len(log) :
        /\ Matched(e) /\ get_param_count(log[e].before) = -1
        /\ Len(log[e].strings) = 3
        /\ IsKeywordId(log[e].strings[3])

(***************************************************************************)
(* C10.  When parse returns, the vector it returns is the subsequence of   *)
(* the input tokens that were scanned and matched no option, in their      *)
(* order in the input, none duplicated, dropped or reordered.              *)
(***************************************************************************)
RECURSIVE UnmatchedScans(_)
UnmatchedScans(e) ==
    IF e > Len(log) THEN <<>>
    ELSE IF Matched(e) THEN UnmatchedScans(e + 1)
    ELSE <<log[e].idx>> \o UnmatchedScans(e + 1)

C10_UnmatchedInOrder ==
    pc = "returned" =>
        LET um == UnmatchedScans(1)
        IN  /\ ret = [k \in 1..Len(um) |-> argv[um[k] + 1]]
            /\ \A a, b \in 1..Len(um) : a < b => um[a] < um[b]
            /\ \A k \in 1..Len(um) : skip_first_n <= um[k] /\ um[k] < argc

\* two different tokens were left unmatched, around a matched one
C10_Witness ==
    /\ pc = "returned"
    /\ Len(ret) = 2
    /\ ret[1] # ret[2]
    /\ Len(log) = 3
    /\ Matched(2)

(***************************************************************************)
(* C11.  is_required never influences parsing.  The same command line,     *)
(* parsed with the positional options of the registry declared required or *)
(* optional in any other way, gives the same values, the same is_set, the  *)
(* same unmatched tokens and the same error or return; an exception is     *)
(* only ever the one handle_match raised for a matched token; and a        *)
(* required positional option that no token was matched to is left with    *)
(* is_set false.                                                           *)
(***************************************************************************)
\* the registry with exactly the positional options of S declared required
WithRequired(options, S) ==
    [k \in DOMAIN options |->
        IF options[k].type = POSITIONAL
        THEN [options[k] EXCEPT !.is_required = (k \in S)]
        ELSE options[k]]

\* the outcome of a call, the declarations of is_required left out
Outcome(options, state, result, exception) ==
    [opts |-> WithRequired(options, {}), pc |-> state, ret |-> result, thrown |-> exception]

C11_RequiredHasNoEffect ==
    Finished =>
        /\ \A S \in SUBSET PositionalsOf(opts0) :
               LET r == parse(argv, WithRequired(opts0, S), skip_first_n)
               IN  Outcome(r.opts, r.pc, r.ret, r.thrown) = Outcome(opts, pc, ret, thrown)
        /\ pc = "thrown" =>
               /\ Len(log) > 0
               /\ Matched(Len(log))
               /\ thrown = log[Len(log)].thrown
        /\ \A p \in PositionalsOf(opts) :
               (opts[p].is_required /\ \A e \in 1..Len(log) : log[e].opt # p) =>
                   ~opts[p].is_set_

\* parse returned after scanning tokens, none of them for the required
\* positional option of the registry, and another positional option got one
C11_Witness ==
    /\ pc = "returned"
    /\ Len(log) > 0
    /\ \E p, q \in PositionalsOf(opts) :
           /\ opts[p].is_required /\ ~opts[p].is_set_
           /\ ~opts[q].is_required /\ opts[q].is_set_

(***************************************************************************)
(* C12.  is_set becomes true only after from_string completed without      *)
(* failing: an option that goes from unset to set in an iteration had its  *)
(* parse called and nothing was thrown; and when handle_match throws for   *)
(* an option (the conversion failed, arguments are missing, or the count   *)
(* of parameters is invalid) parse aborts there and the option has the     *)
(* is_set it had before that match.                                        *)
(***************************************************************************)
C12_SetOnlyAfterConversion ==
    \A e \in 1..Len(log) :
        Matched(e) =>
            /\ (log[e].o.is_set_ /\ ~log[e].before.is_set_) =>
                   (log[e].called /\ log[e].thrown = NoException)
            /\ log[e].thrown # NoException =>
                   /\ log[e].thrown \in {ConversionError, InsufficientArgumentsError,
                                         InvalidArityError}
                   /\ e = Len(log)
                   /\ pc = "thrown"
                   /\ thrown = log[e].thrown
                   /\ log[e].o.is_set_ = log[e].before.is_set_
                   /\ opts[log[e].opt].is_set_ = log[e].before.is_set_

\* the conversion failed for an option that was not set before
C12_Witness ==
    /\ pc = "thrown"
    /\ thrown = ConversionError
    /\ log[Len(log)].called
    /\ ~opts[log[Len(log)].opt].is_set_

(***************************************************************************)
(* C13.  When parse aborts, every option matched without error at an       *)
(* earlier token of the call has the value and the is_set = true that its  *)
(* last such match gave it, and nothing was returned.                      *)
(***************************************************************************)
C13_NoRollback ==
    pc = "thrown" =>
        /\ ret = <<>>
        /\ \A e \in 1..(Len(log) - 1) :
               (Matched(e) /\ \A f \in (e + 1)..(Len(log) - 1) : log[f].opt # log[e].opt) =>
                   /\ opts[log[e].opt].is_set_
                   /\ get_val(opts[log[e].opt]) = get_val(log[e].o)

(***************************************************************************)
(* C14.  When the option matched has a get_param_count below -1,           *)
(* handle_match throws std::invalid_argument (invalid number of requested  *)
(* parameters) whatever the number of tokens left: no string was sliced,   *)
(* the option's parse was not called, the option is as it was and the scan *)
(* index is still at the matched token.                                    *)
(***************************************************************************)
C14_InvalidArityFirst ==
    \A e \in 1..Len(log) :
        (Matched(e) /\ get_param_count(log[e].before) < -1) =>
            /\ log[e].thrown = InvalidArityError
            /\ log[e].thrown.type = "std::invalid_argument"
            /\ log[e].strings = <<>>
            /\ ~log[e].called
            /\ log[e].o = log[e].before
            /\ e = Len(log)
            /\ pc = "thrown"
            /\ thrown = InvalidArityError
            /\ i = log[e].idx
            /\ opts[log[e].opt] = log[e].before

\* the misconfigured option was matched with two tokens after it, after another
\* token was scanned
C14_Witness ==
    /\ pc = "thrown"
    /\ Len(log) = 2
    /\ get_param_count(log[2].before) < -1
    /\ argc = log[2].idx + 3

(***************************************************************************)
(* C15.  No backtracking: a token handed to an option as a parameter is    *)
(* never given to the matcher, also when it is a keyword identifier.  With *)
(* a string option "--name" and a flag "--verbose", the command line       *)
(* "--name" "--verbose" sets the string option to "--verbose" and leaves   *)
(* the flag unset.                                                         *)
(***************************************************************************)
\* the scan indices of the parameters handed over in the iteration e
ParameterIndices(e) == {log[e].idx + j - 1 : j \in 2..Len(log[e].strings)}

C15_NoBacktracking ==
    /\ \A e, f \in 1..Len(log) : log[f].idx \notin ParameterIndices(e)
    /\ (Finished /\ argv = <<Tok_name, Tok_verbose>> /\ skip_first_n = 0) =>
           \A k \in 1..Len(opts) :
               /\ opts0[k] = Name =>
                      /\ pc = "returned"
                      /\ ret = <<>>
                      /\ get_val(opts[k]) = Tok_verbose
                      /\ opts[k].is_set_
               /\ (opts0[k] = Verbose /\ \E n \in 1..Len(opts) : opts0[n] = Name) =>
                      opts[k] = Verbose

\* the command line of the example was parsed with the flag registered first
C15_Witness ==
    /\ pc = "returned"
    /\ argv = <<Tok_name, Tok_verbose>>
    /\ skip_first_n = 0
    /\ opts0 = <<Verbose, Name>>
    /\ ParameterIndices(1) = {1}

(***************************************************************************)
(* C16.  KeywordOption::matches(token) is true if and only if the token    *)
(* has the length and, one by one, the characters of one of the option's   *)
(* identifiers: a token that is a part of an identifier, that goes on      *)
(* after one, or that differs in the case of a letter does not match, and  *)
(* whether the option is set makes no difference.  So a scanned token is   *)
(* matched to a keyword option exactly when it is one of its identifiers.  *)
(***************************************************************************)
SameString(a, b) == Len(a) = Len(b) /\ \A c \in 1..Len(a) : a[c] = b[c]

IsIdentifierOf(o, t) == \E j \in 1..Len(o.identifiers) : SameString(o.identifiers[j], t)

C16_ExactMatch ==
    /\ \A k \in KeywordsOf(opts), t \in KwTokens :
           /\ KeywordOption_matches(opts[k], t) <=> IsIdentifierOf(opts[k], t)
           /\ KeywordOption_matches([opts[k] EXCEPT !.is_set_ = ~opts[k].is_set_], t)
                  <=> KeywordOption_matches(opts[k], t)
    /\ \A k \in KeywordsOf(opts) : ~\E t \in {Tok_Name, Tok_nam, Tok_names} :
           KeywordOption_matches(opts[k], t)
    /\ \A e \in 1..Len(log) :
           IF \E k \in KeywordsOf(opts) : IsIdentifierOf(opts[k], Tok(e))
           THEN Matched(e) /\ IsIdentifierOf(log[e].before, Tok(e))
           ELSE ~Matched(e)

\* the flag was matched when unset and again when set, and between the two a
\* token close to the identifier of the string option of the registry was
\* scanned and not matched
C16_Witness ==
    /\ pc = "returned"
    /\ Len(log) = 3
    /\ Matched(1) /\ ~log[1].before.is_set_
    /\ Matched(3) /\ log[3].opt = log[1].opt /\ log[3].before.is_set_
    /\ ~Matched(2) /\ Tok(2) \in {Tok_Name, Tok_nam, Tok_names}
    /\ \E k \in 1..Len(opts) : opts0[k] = Name

(***************************************************************************)
(* C17.  With a flag "--verbose", a numeric keyword option "--count" and a *)
(* required positional string option "file" in the registry, the command   *)
(* line "prog" "--verbose" "--count" "3" "input.txt" "--unknown" parsed    *)
(* with one token skipped ends without error with the flag true, the       *)
(* count 3, the file "input.txt", all three set, and "--unknown" the only  *)
(* unmatched token.                                                        *)
(***************************************************************************)
ExampleCall ==
    /\ Len(opts0) = 3
    /\ argv = ExampleArgv
    /\ skip_first_n = 1

C17_Example ==
    (ExampleCall /\ Finished) =>
        /\ pc = "returned"
        /\ thrown = NoException
        /\ ret = <<Tok_unknown>>
        /\ \A k \in 1..Len(opts) :
               /\ opts[k].is_set_
               /\ opts0[k] = Verbose => get_val(opts[k]) = TRUE
               /\ opts0[k] = CountLong => get_val(opts[k]) = 3
               /\ opts0[k] = File => get_val(opts[k]) = Tok_input

\* the call of the example returned, the options registered in the order of
\* the example
C17_Witness ==
    /\ ExampleCall
    /\ opts0 = <<Verbose, CountLong, File>>
    /\ pc = "returned"
    /\ Len(log) = 4

(***************************************************************************)
(* C18.  ArgParser::parse returns true exactly when every token of that    *)
(* call, from skip_first_n on, was recognised (matched, or handed to a     *)
(* matched option), in every call of a sequence of calls on one object.    *)
(***************************************************************************)
C18_TrueIffAllRecognised ==
    pc = "returned" =>
        (ret = TRUE <=> \A e \in 1..Len(log) : Matched(e))

(***************************************************************************)
(* C19.  In both copies of the ArgParser that keeps the values in maps,    *)
(* when set_defaults was never called, get_flag, get_string and get_int    *)
(* return false, "" and -1 for every name that the parsed command line     *)
(* put no value under.                                                     *)
(***************************************************************************)
C19_DefaultsWithoutSetDefaults ==
    (map_parser.pc = "returned" /\ ~map_parser.set_defaults_called) =>
        \A name \in MapNames :
            /\ name \notin DOMAIN map_parser.options_flag =>
                   get_flag(map_parser, name) = FALSE
            /\ name \notin DOMAIN map_parser.options_string =>
                   get_string(map_parser, name) = <<>>
            /\ name \notin DOMAIN map_parser.options_int =>
                   get_int(map_parser, name) = -1

(***************************************************************************)
(* C20.  print_help writes a usage line made of "Usage:", the command,     *)
(* the word "<options>" exactly when the registry has a keyword option     *)
(* (and no identifier of one), and the positional options in registration  *)
(* order, a required one as its name and an optional one as [name]; then   *)
(* the line "Options:"; then, line after line until the end of the text,   *)
(* one entry for each option of the registry, in the order of the          *)
(* registry: it starts a line with the first part of the option's help     *)
(* and holds that and the help text, and nothing else but padding.         *)
(***************************************************************************)
\* the pieces of str between the occurrences of the character sep
RECURSIVE Split(_, _, _, _)
Split(str, sep, k, piece) ==
    IF k > Len(str) THEN <<piece>>
    ELSE IF str[k] = sep THEN <<piece>> \o Split(str, sep, k + 1, <<>>)
    ELSE Split(str, sep, k + 1, Append(piece, str[k]))

\* str without line ends, blanks and fill characters
RECURSIVE Squeeze(_, _)
Squeeze(str, k) ==
    IF k > Len(str) THEN <<>>
    ELSE IF str[k] \in {"\n", " ", os.fill} THEN Squeeze(str, k + 1)
    ELSE <<str[k]>> \o Squeeze(str, k + 1)

RECURSIVE Flatten(_, _, _)
Flatten(lines, from, to) ==
    IF from > to THEN <<>> ELSE lines[from] \o Flatten(lines, from + 1, to)

StartsWith(str, prefix) ==
    Len(prefix) <= Len(str) /\ SubSeq(str, 1, Len(prefix)) = prefix

ShownName(o) == IF o.is_required THEN o.name ELSE <<"[">> \o o.name \o <<"]">>

\* the lines from the line from on are the entries of the options k, k + 1, ...
RECURSIVE EntriesFrom(_, _, _)
EntriesFrom(lines, from, k) ==
    IF k > Len(opts) THEN from = Len(lines)
    ELSE \E to \in from..(Len(lines) - 1) :
            /\ StartsWith(lines[from], get_help(opts[k]).first)
            /\ Squeeze(Flatten(lines, from, to), 1)
                   = Squeeze(get_help(opts[k]).first \o opts[k].help, 1)
            /\ EntriesFrom(lines, to + 1, k + 1)

C20_HelpLayout ==
    os.printed =>
        LET lines      == Split(os.text, "\n", 1, <<>>)
            words      == Split(lines[1], " ", 1, <<>>)
            positional == Subsequence(opts, PositionalsOf(opts), 1)
        IN  /\ words = <<<<"U", "s", "a", "g", "e", ":">>, os.cmd>>
                          \o (IF KeywordsOf(opts) # {}
                              THEN <<<<"<", "o", "p", "t", "i", "o", "n", "s", ">">>>>
                              ELSE <<>>)
                          \o [k \in 1..Len(positional) |-> ShownName(positional[k])]
            /\ lines[2] = <<"O", "p", "t", "i", "o", "n", "s", ":">>
            /\ lines[Len(lines)] = <<>>
            /\ EntriesFrom(lines, 3, 1)

\* the help of an optional positional option registered before a keyword
\* option was printed, with entries of more than one line
C20_Witness ==
    /\ os.printed
    /\ os.min_w = 6
    /\ Len(opts) = 2
    /\ opts[1].type = POSITIONAL /\ ~opts[1].is_required
    /\ opts[2].type = KEYWORD

(***************************************************************************)
(* C21.  print_help leaves the format flags of the stream as they were     *)
(* before the call on every way out: when it returns, and when an          *)
(* exception raised while it writes leaves it.                             *)
(***************************************************************************)
C21_FlagsRestored ==
    os.printed => os.flags = os.flags0

(***************************************************************************)
(* C22.  A scanned token is put in the vector of unrecognised tokens if    *)
(* and only if it is no identifier of a keyword option and every           *)
(* positional option of the registry is set at that point of the scan.  So *)
(* a token that is no identifier goes to the first positional option not   *)
(* yet set when there is one, also when it looks like an option.           *)
(***************************************************************************)
\* the option p is set when the iteration e begins
SetBefore(p, e) ==
    \/ opts0[p].is_set_
    \/ \E f \in 1..(e - 1) : log[f].opt = p /\ log[f].o.is_set_

UnsetBefore(e) == {p \in PositionalsOf(opts) : ~SetBefore(p, e)}

C22_UnmatchedIffNothingLeft ==
    /\ \A e \in 1..Len(log) :
           /\ ~Matched(e) <=> (~IsKeywordId(Tok(e)) /\ UnsetBefore(e) = {})
           /\ (~IsKeywordId(Tok(e)) /\ UnsetBefore(e) # {}) =>
                  /\ log[e].opt \in UnsetBefore(e)
                  /\ \A p \in UnsetBefore(e) : log[e].opt <= p
    /\ Len(unrecognised) = Cardinality({e \in 1..Len(log) : ~Matched(e)})

\* a token that begins with a dash and is no identifier went to the second
\* positional option, and the same token was then left unmatched
C22_Witness ==
    /\ pc = "returned"
    /\ Len(log) = 3
    /\ \A e \in 1..2 : Matched(e) /\ log[e].before.type = POSITIONAL
    /\ Tok(2)[1] = "-"
    /\ ~Matched(3)
    /\ Tok(3) = Tok(2)

(***************************************************************************)
(* C23.  When keyword options share an identifier, every occurrence of the *)
(* identifier is matched to the one of them registered first: an option    *)
(* registered later is never matched through it, whatever the input.       *)
(***************************************************************************)
\* the keyword options of the registry that have the token t as an identifier
Holders(t) == {k \in KeywordsOf(opts) : t \in Ids(opts[k])}

C23_FirstRegisteredWins ==
    \A e \in 1..Len(log) :
        Holders(Tok(e)) # {} =>
            /\ log[e].opt \in Holders(Tok(e))
            /\ \A k \in Holders(Tok(e)) : log[e].opt <= k
            /\ \A k \in Holders(Tok(e)) :
                   (k # log[e].opt /\ \A f \in 1..Len(log) : Tok(f) = Tok(e)) =>
                       opts[k] = opts0[k]

\* the shared identifier occurred twice and went both times to the option
\* registered first, the option registered second left as it was
C23_Witness ==
    /\ pc = "returned"
    /\ Len(log) = 2
    /\ Tok(1) = Tok(2)
    /\ Holders(Tok(1)) = {1, 2}
    /\ log[1].opt = 1 /\ log[2].opt = 1
    /\ opts[2] = opts0[2]

(***************************************************************************)
(* C24.  On a match at the scan index i of an option whose count of        *)
(* parameters resolves to a, with i + a < argc, the option's parse gets    *)
(* exactly the a + 1 tokens argv[i..i+a] in their order, the matched token *)
(* first; and unless it throws, the next token given to the matcher is     *)
(* argv[i+a+1], or the scan ends when i + a + 1 = argc.                    *)
(***************************************************************************)
ResolvedArity(e) ==
    IF get_param_count(log[e].before) = -1 THEN argc - log[e].idx - 1
    ELSE get_param_count(log[e].before)

C24_SliceAndResume ==
    \A e \in 1..Len(log) :
        (Matched(e) /\ get_param_count(log[e].before) >= -1
                    /\ log[e].idx + ResolvedArity(e) < argc) =>
            LET a == ResolvedArity(e) IN
            /\ log[e].called
            /\ Len(log[e].strings) = a + 1
            /\ \A j \in 0..a : log[e].strings[j + 1] = argv[log[e].idx + j + 1]
            /\ log[e].thrown = NoException =>
                   /\ log[e].next = log[e].idx + a + 1
                   /\ e < Len(log) => log[e + 1].idx = log[e].idx + a + 1
                   /\ e = Len(log) => i = log[e].idx + a + 1
                   /\ log[e].idx + a + 1 = argc => e = Len(log)

\* an option took the matched token and one parameter, and the token after
\* the parameter was given to the matcher
C24_Witness ==
    \E e \in 1..(Len(log) - 1) :
        /\ Matched(e)
        /\ Len(log[e].strings) = 2
        /\ log[e].strings[1] # log[e].strings[2]
        /\ log[e + 1].idx = log[e].idx + 2

(***************************************************************************)
(* C25.  An option that asks for all remaining arguments (-1) never fails  *)
(* for want of arguments: matched at the last token it is parsed with the  *)
(* matched token alone, an empty capture, and parse completes.             *)
(***************************************************************************)
C25_RestNeverInsufficient ==
    \A e \in 1..Len(log) :
        (Matched(e) /\ get_param_count(log[e].before) = -1) =>
            /\ log[e].thrown = NoException
            /\ log[e].called
            /\ e = Len(log)
            /\ pc \in {"scan", "returned"}
            /\ i = argc
            /\ log[e].idx = argc - 1 =>
                   /\ log[e].strings = <<Tok(e)>>
                   /\ get_val(log[e].o) = <<>>
                   /\ log[e].o.is_set_

\* the option was matched at the last token, after another token, and parse
\* returned
C25_Witness ==
    /\ pc = "returned"
    /\ Len(log) = 2
    /\ Matched(2)
    /\ get_param_count(log[2].before) = -1
    /\ log[2].idx = argc - 1
    /\ opts[log[2].opt].is_set_

(***************************************************************************)
(* C26.  The tokens below skip_first_n are never given to the matcher: for *)
(* 0 <= skip_first_n <= argc, parse ends with the same options, the same   *)
(* unrecognised tokens and the same exception as parse of the remaining    *)
(* tokens alone with nothing skipped; a skipped token sets no option and   *)
(* is not returned, even when it is a keyword option's identifier.         *)
(***************************************************************************)
C26_SkippedNeverExamined ==
    (Finished /\ skip_first_n <= argc) =>
        LET r == parse(SubSeq(argv, skip_first_n + 1, argc), opts0, 0) IN
        /\ r.opts = opts
        /\ r.pc = pc
        /\ r.ret = ret
        /\ r.thrown = thrown
        /\ \A e \in 1..Len(log) : log[e].idx >= skip_first_n
        /\ pc = "returned" =>
               Len(ret) = Cardinality({e \in 1..Len(log) : ~Matched(e)})

\* the skipped token is the identifier of a keyword option of the registry,
\* tokens after it were scanned and the option is not set
C26_Witness ==
    /\ pc = "returned"
    /\ skip_first_n = 1
    /\ argc > 1
    /\ Len(log) > 0
    /\ \E k \in KeywordsOf(opts) : argv[1] \in Ids(opts[k]) /\ ~opts[k].is_set_

(***************************************************************************)
(* C27.  The value of an option is overwritten only by a successful        *)
(* conversion: when the conversion of a numeric option fails with          *)
(* ConversionError, the option's value after the failure is the value it   *)
(* had before the call.                                                    *)
(***************************************************************************)
C27_ValueKeptOnFailure ==
    \A e \in 1..Len(log) :
        (Matched(e) /\ log[e].thrown = ConversionError) =>
            get_val(log[e].o) = get_val(log[e].before)

(***************************************************************************)
(* C28.  parse changes nothing but val and is_set of the options it        *)
(* matched: a step of the scan changes at most the option matched in that  *)
(* step, and of it only val and is_set; an option that no token was        *)
(* matched to is as it was when parse was called; the registry keeps its   *)
(* length and order, every option its type, identifiers, name, help,       *)
(* is_required and count of parameters; argc and argv are not changed.     *)
(***************************************************************************)
\* an option without the two fields that parse may write
Static(o) == [o EXCEPT !.val = <<>>, !.is_set_ = FALSE]

C28_Frame ==
    [][pc = "scan" =>
          /\ argv' = argv
          /\ argc' = argc
          /\ Len(opts') = Len(opts)
          /\ \A k \in 1..Len(opts) :
                 /\ Static(opts'[k]) = Static(opts[k])
                 /\ get_param_count(opts'[k]) = get_param_count(opts[k])
                 /\ opts'[k] # opts[k] =>
                        /\ Len(log') = Len(log) + 1
                        /\ log'[Len(log')].opt = k
                        /\ log'[Len(log')].idx = i
                 /\ (\A e \in 1..Len(log') : log'[e].opt # k) => opts'[k] = opts0'[k]
      ]_vars

\* parse returned with one option of the registry written and another, with
\* a default of its own, matched to no token
C28_Witness ==
    /\ pc = "returned"
    /\ Len(opts) = 2
    /\ \E k, m \in 1..Len(opts) :
           /\ k # m
           /\ opts[k].val # opts0[k].val
           /\ opts[k].is_set_
           /\ opts[k].help # ""
           /\ \A e \in 1..Len(log) : log[e].opt # m
           /\ opts[m] = opts0[m]

(***************************************************************************)
(* C29.  Over calls of parse one after the other on the same registry:     *)
(* is_set is false for every option at construction and never goes from    *)
(* true to false; a positional option that is set is matched to no token   *)
(* and is not written again, in the same call or in a later one, so a      *)
(* token that is no keyword identifier goes to the first positional option *)
(* still unset, or to the unrecognised tokens when there is none.          *)
(***************************************************************************)
UnsetPositionals == {k \in PositionalsOf(opts) : ~opts[k].is_set_}

C29_SetOnce ==
    [][/\ pc = "constructed" => \A k \in 1..Len(opts) : ~opts[k].is_set_
       /\ \A k \in 1..Len(opts) : opts[k].is_set_ => opts'[k].is_set_
       /\ \A k \in PositionalsOf(opts) :
              opts[k].is_set_ =>
                  /\ opts'[k] = opts[k]
                  /\ Len(log') > Len(log) => log'[Len(log')].opt # k
       /\ (pc = "scan" /\ i < argc /\ ~IsKeywordId(argv[i + 1])) =>
              /\ Len(log') = Len(log) + 1
              /\ log'[Len(log')].opt =
                     IF UnsetPositionals = {} THEN nullptr
                     ELSE CHOOSE k \in UnsetPositionals :
                              \A m \in UnsetPositionals : k <= m
              /\ UnsetPositionals = {} =>
                     unrecognised' = Append(unrecognised, argv[i + 1])
      ]_vars

\* in a later call, a positional option set by an earlier call was passed
\* over: one token went to the positional option after it and another was
\* returned
C29_Witness ==
    /\ pc = "returned"
    /\ ret # <<>>
    /\ \E k, m \in PositionalsOf(opts) :
           /\ k < m
           /\ opts0[k].is_set_
           /\ opts[k] = opts0[k]
           /\ ~opts0[m].is_set_
           /\ \E e \in 1..Len(log) : log[e].opt = m /\ opts[m].is_set_

(***************************************************************************)
(* C30.  When an identifier of a keyword option with one parameter is      *)
(* scanned several times, each time followed by a token that converts,     *)
(* every occurrence takes exactly the token after it, and the option's     *)
(* value is the one given by the last occurrence.                          *)
(***************************************************************************)
Occurrences(k) == {e \in 1..Len(log) : log[e].opt = k}

Given(o, t) == IF o.T = "int" THEN NumeralValue(t) ELSE t

Convertible(o, t) == IF o.T = "int" THEN IsIntNumeral(t) ELSE TRUE

C30_LastWriteWins ==
    \A k \in KeywordsOf(opts) :
        (/\ get_param_count(opts[k]) = 1
         /\ Occurrences(k) # {}
         /\ \A e \in Occurrences(k) :
                /\ log[e].idx + 1 < argc
                /\ Convertible(opts[k], argv[log[e].idx + 2])) =>
            LET last == CHOOSE e \in Occurrences(k) : \A f \in Occurrences(k) : f <= e IN
            /\ \A e \in Occurrences(k) :
                   /\ log[e].thrown = NoException
                   /\ log[e].strings = <<Tok(e), argv[log[e].idx + 2]>>
                   /\ log[e].next = log[e].idx + 2
                   /\ get_val(log[e].o) = Given(opts[k], argv[log[e].idx + 2])
            /\ get_val(opts[k]) = Given(opts[k], argv[log[last].idx + 2])

\* parse returned after the numeric option was given two different numbers
C30_Witness ==
    /\ pc = "returned"
    /\ \E k \in KeywordsOf(opts) :
           /\ opts[k].T = "int"
           /\ \E e, f \in Occurrences(k) :
                  /\ e < f
                  /\ get_val(log[e].o) # get_val(log[f].o)
                  /\ get_val(opts[k]) = get_val(log[f].o)
                  /\ get_val(log[f].o) = NumeralValue(argv[log[f].idx + 2])

====
